---- MODULE Spec2Model ----
(***************************************************************************)
(* Model of the draw-call batching engine of cuivre                        *)
(* (src/graphics/batches.rs) and of the frame pass that drains it          *)
(* (GraphicsManager::render / draw in src/graphics/mod.rs).                *)
(*                                                                         *)
(* Indices of the instance buffer are 0-based as in the Rust source; the   *)
(* Vec<Batch> of a BatchList is a TLA+ sequence (1-based), so "the batch   *)
(* of lowest index" is the batch created first.                            *)
(***************************************************************************)
EXTENDS Integers, Sequences, FiniteSets, TLC

(***************************************************************************)
(* Bounds of the model.                                                    *)
(***************************************************************************)
\* Capacity of a batch in the general specification: a scaled-down
\* MAX_BATCH_SIZE (the constant itself lives in graphics/mesh.rs).
MAX_BATCH_SIZE == 2
\* Largest number of insert() calls between two moments the list is empty.
MaxInserts == 5
\* Largest number of GL texture names generated.
MaxTextures == 2
\* Largest number of Texture values alive outside the texture cache.
MaxOwned == 2
\* Largest number of events polled by one update.
MaxEvents == 2
\* Largest number of GL shader objects and of GL programs created.
MaxShaders == 4
MaxPrograms == 2

(***************************************************************************)
(* Program constants.                                                      *)
(***************************************************************************)
\* Floats per instance: 4 of texture region + 16 of matrix.
BATCH_INSTANCE_SIZE == 20
\* size_of::<f32>()
SIZE_OF_F32 == 4

VARIABLES
    batches,         \* BatchList.batches : Vec<Batch>
    max_batch_size,  \* the MAX_BATCH_SIZE the build was compiled with
    panicked,        \* TRUE once an operation panicked (index out of bounds)
    lastOp,          \* the operation that produced this state
    lastDc,          \* the DrawCall of insert(), when it was the last operation
    addLog,          \* the Batch::add calls insert() made (by itself or via
                     \* Batch::new), when it was the last operation
    origin,          \* per batch, the DrawCalls its add() accepted (history)
    inserted,        \* insert() calls since the list was last empty
    keysSeen,        \* keys of those insert() calls
    insertedOf,      \* per key, the number of those insert() calls
    glTrace,         \* GL / window calls issued by render() and its clearing of
                     \* the BatchList, in order, when it was the last operation
    renderResult,    \* what render() returned, when it was the last operation
    drawn,           \* per batch, whether a render() already drew it
    redrawn,         \* TRUE once a render() drew a batch a second time
    queued,          \* TRUE when a DrawCall was queued since the previous render()
    frame            \* what render() started from, when it was the last operation

batchVars == <<batches, max_batch_size, panicked, lastOp, lastDc, addLog, origin,
               inserted, keysSeen, insertedOf, glTrace, renderResult, drawn, redrawn,
               queued, frame>>

VARIABLES
    overflow_checks, \* TRUE in a build that panics on integer overflow (debug),
                     \* FALSE in one that wraps (release)
    glNext,          \* the texture name the next gl::GenTextures yields
    glLive,          \* texture names generated and not deleted
    glDeleted,       \* per texture name, the gl::DeleteTextures calls made on
                     \* it (counted up to 2)
    owned,           \* the Texture values alive outside the texture cache,
                     \* each by the texture name it holds
    cache,           \* GraphicsManager.textures : HashMap<PathBuf, Texture>
    texResult        \* the last texture operation: its input, what it
                     \* returned and the loader and GL calls it made

texVars == <<overflow_checks, glNext, glLive, glDeleted, owned, cache, texResult>>

VARIABLES
    key_state,               \* InputManager.key_state : HashMap<Keycode, KeyState>
    mouse_state,             \* InputManager.mouse_state : HashMap<MouseButton, KeyState>
    mouse_position,          \* InputManager.mouse_position
    mouse_position_relative, \* InputManager.mouse_position_relative
    mouse_wheel,             \* InputManager.mouse_wheel
    held,                    \* the keys and mouse buttons physically held down
    cursor,                  \* the position of the mouse cursor
    polled,                  \* the events that the last update polled
    returned,                \* the events that the last update returned
    before                   \* held and mouse_position before the last update

inputVars ==
    <<key_state, mouse_state, mouse_position, mouse_position_relative, mouse_wheel,
      held, cursor, polled, returned, before>>

VARIABLES
    glShaderNext,   \* the name the next gl::CreateShader yields
    glShaders,      \* the shader objects created and not deleted
    glProgramNext,  \* the name the next gl::CreateProgram yields
    glPrograms,     \* the programs created
    attached,       \* the pairs <<program, shader>> of attached shaders
    compiled,       \* the Shader values that from_source returned
    shaderResult    \* the last shader operation: its input, what it
                    \* returned and the GL calls it made

shaderVars ==
    <<glShaderNext, glShaders, glProgramNext, glPrograms, attached, compiled, shaderResult>>

vars == <<batchVars, texVars, inputVars, shaderVars>>

(***************************************************************************)
(* Values.  A float is an abstract value; the buffer is zero-initialised.  *)
(***************************************************************************)
ZeroF32 == 0

\* Vector4f, indexed 0..3 (cgmath Index for Vector4)
Vec4(a, b, c, d) == [i \in 0..3 |-> CASE i = 0 -> a [] i = 1 -> b [] i = 2 -> c [] OTHER -> d]

\* Matrix4f: m[c] is column c, m[c][r] the entry of column c and row r
\* (cgmath Index for Matrix4 yields columns).
Mat4(base) == [c \in 0..3 |-> [r \in 0..3 |-> base + 4 * c + r]]

\* Two per-object payloads with pairwise different entries.
TexPosA == Vec4(1, 2, 3, 4)
TexPosB == Vec4(21, 22, 23, 24)
MatrixA == Mat4(5)
MatrixB == Mat4(25)

\* Mesh: a Copy struct of GL object names (fields read through vao(), ebo(),
\* batch_vbo(), indices_count()).
QuadMesh == [vao |-> 1, ebo |-> 2, batch_vbo |-> 3, indices_count |-> 6]
NoVaoMesh == [vao |-> 0, ebo |-> 2, batch_vbo |-> 3, indices_count |-> 6]

MkDrawCall(p, m, t, tp, mx) ==
    [program |-> p, mesh |-> m, texture |-> t, batch_vbo |-> m.batch_vbo,
     tex_position |-> tp, matrix |-> mx]

\* The DrawCalls offered to insert(): a base call, the same key with another
\* payload, and calls that differ from the base in exactly one key component.
DrawCalls ==
    { MkDrawCall(1, QuadMesh, 1, TexPosA, MatrixA),
      MkDrawCall(1, QuadMesh, 1, TexPosB, MatrixB),
      MkDrawCall(1, QuadMesh, 2, TexPosA, MatrixA),
      MkDrawCall(2, QuadMesh, 1, TexPosA, MatrixA),
      MkDrawCall(1, NoVaoMesh, 1, TexPosA, MatrixA) }

\* The compatibility key of a DrawCall or of a Batch.
KeyOf(x) == <<x.program, x.mesh, x.texture>>

(***************************************************************************)
(* Batch                                                                   *)
(***************************************************************************)
BufferLen == BATCH_INSTANCE_SIZE * max_batch_size

\* The instance record write of Batch::add with the matrix read row by row.
WriteInstance_RowMajor(buffer, start_index, drawcall) ==
    [j \in DOMAIN buffer |->
        IF j \in start_index .. (start_index + 3)
        THEN drawcall.tex_position[j - start_index]
        ELSE IF j \in (start_index + 4) .. (start_index + 4 + 15)
        THEN LET i == j - start_index - 4
             IN  drawcall.matrix[i % 4][i \div 4]
        ELSE buffer[j]]

\* The two write loops of Batch::add: tex_position into the 4 slots from
\* start_index, then matrix[i / 4][i % 4] into the 16 slots after them.
WriteInstance(buffer, start_index, drawcall) ==
    [j \in DOMAIN buffer |->
        IF j \in start_index .. (start_index + 3)
        THEN drawcall.tex_position[j - start_index]
        ELSE IF j \in (start_index + 4) .. (start_index + 4 + 15)
        THEN LET i == j - start_index - 4
             IN  drawcall.matrix[i \div 4][i % 4]
        ELSE buffer[j]]

\* The slots the two loops index.
WrittenSlots(start_index) == start_index .. (start_index + 4 + 15)

\* Batch::add that compares program and mesh but not the texture.
Add_IgnoreTexture(self, drawcall) ==
    IF \/ drawcall.program # self.program
       \/ drawcall.mesh # self.mesh
    THEN [ok |-> FALSE, batch |-> self, panic |-> FALSE]
    ELSE IF self.obj_count >= max_batch_size
    THEN [ok |-> FALSE, batch |-> self, panic |-> FALSE]
    ELSE LET start_index == self.obj_count * BATCH_INSTANCE_SIZE
         IN  IF \E j \in WrittenSlots(start_index) : j \notin DOMAIN self.buffer
             THEN [ok |-> FALSE, batch |-> self, panic |-> TRUE]
             ELSE [ok |-> TRUE,
                   batch |-> [self EXCEPT
                       !.buffer = WriteInstance(self.buffer, start_index, drawcall),
                       !.obj_count = self.obj_count + 1],
                   panic |-> FALSE]

\* Batch::add whose capacity test lets a full batch through.
Add_FullOffByOne(self, drawcall) ==
    IF \/ drawcall.program # self.program
       \/ drawcall.mesh # self.mesh
       \/ drawcall.texture # self.texture
    THEN [ok |-> FALSE, batch |-> self, panic |-> FALSE]
    ELSE IF self.obj_count > max_batch_size
    THEN [ok |-> FALSE, batch |-> self, panic |-> FALSE]
    ELSE LET start_index == self.obj_count * BATCH_INSTANCE_SIZE
         IN  IF \E j \in WrittenSlots(start_index) : j \notin DOMAIN self.buffer
             THEN [ok |-> FALSE, batch |-> self, panic |-> TRUE]
             ELSE [ok |-> TRUE,
                   batch |-> [self EXCEPT
                       !.buffer = WriteInstance(self.buffer, start_index, drawcall),
                       !.obj_count = self.obj_count + 1],
                   panic |-> FALSE]

\* Batch::add that writes every instance record at the start of the buffer.
Add_StartAtZero(self, drawcall) ==
    IF \/ drawcall.program # self.program
       \/ drawcall.mesh # self.mesh
       \/ drawcall.texture # self.texture
    THEN [ok |-> FALSE, batch |-> self, panic |-> FALSE]
    ELSE IF self.obj_count >= max_batch_size
    THEN [ok |-> FALSE, batch |-> self, panic |-> FALSE]
    ELSE LET start_index == 0
         IN  IF \E j \in WrittenSlots(start_index) : j \notin DOMAIN self.buffer
             THEN [ok |-> FALSE, batch |-> self, panic |-> TRUE]
             ELSE [ok |-> TRUE,
                   batch |-> [self EXCEPT
                       !.buffer = WriteInstance(self.buffer, start_index, drawcall),
                       !.obj_count = self.obj_count + 1],
                   panic |-> FALSE]

\* Batch::add.  .ok is the bool the source returns, .batch the batch after
\* the call, .panic tells that an indexed write was out of bounds (the
\* source panics there and returns nothing).
Add(self, drawcall) ==
    IF \/ drawcall.program # self.program
       \/ drawcall.mesh # self.mesh
       \/ drawcall.texture # self.texture
    THEN [ok |-> FALSE, batch |-> self, panic |-> FALSE]
    ELSE IF self.obj_count >= max_batch_size
    THEN [ok |-> FALSE, batch |-> self, panic |-> FALSE]
    ELSE LET start_index == self.obj_count * BATCH_INSTANCE_SIZE
         IN  IF \E j \in WrittenSlots(start_index) : j \notin DOMAIN self.buffer
             THEN [ok |-> FALSE, batch |-> self, panic |-> TRUE]
             ELSE [ok |-> TRUE,
                   batch |-> [self EXCEPT
                       !.buffer = WriteInstance(self.buffer, start_index, drawcall),
                       !.obj_count = self.obj_count + 1],
                   panic |-> FALSE]

\* Batch::new that leaves out the add of its drawcall.
New_WithoutAdd(drawcall) ==
    LET batch == [program |-> drawcall.program,
                  mesh |-> drawcall.mesh,
                  texture |-> drawcall.texture,
                  batch_vbo |-> drawcall.batch_vbo,
                  buffer |-> [j \in 0 .. (BufferLen - 1) |-> ZeroF32],
                  obj_count |-> 0]
    IN  [batch |-> batch, ok |-> FALSE, panic |-> FALSE,
         call |-> [via |-> "new", before |-> batch, dc |-> drawcall,
                   result |-> FALSE, panic |-> FALSE, after |-> batch]]

\* Batch::new: an empty batch keyed by the drawcall, then one add whose
\* result is not looked at.
New(drawcall) ==
    LET batch == [program |-> drawcall.program,
                  mesh |-> drawcall.mesh,
                  texture |-> drawcall.texture,
                  batch_vbo |-> drawcall.batch_vbo,
                  buffer |-> [j \in 0 .. (BufferLen - 1) |-> ZeroF32],
                  obj_count |-> 0]
        r == Add(batch, drawcall)
    IN  [batch |-> r.batch, ok |-> r.ok, panic |-> r.panic,
         call |-> [via |-> "new", before |-> batch, dc |-> drawcall,
                   result |-> r.ok, panic |-> r.panic, after |-> r.batch]]

(***************************************************************************)
(* BatchList                                                               *)
(***************************************************************************)
\* BatchList::insert that never looks at the existing batches.
InsertFrom_NoScan(bs, drawcall, i, log) ==
    LET n == New(drawcall)
    IN  [batches |-> Append(bs, n.batch), log |-> Append(log, n.call),
         at |-> IF n.ok THEN Len(bs) + 1 ELSE 0, panic |-> n.panic]

\* BatchList::insert that gives up the scan after the first batch.
InsertFrom_FirstOnly(bs, drawcall, i, log) ==
    LET r == IF i <= Len(bs) THEN Add(bs[i], drawcall)
             ELSE [ok |-> FALSE, batch |-> <<>>, panic |-> FALSE]
        n == New(drawcall)
    IN  IF r.ok
        THEN [batches |-> [bs EXCEPT ![i] = r.batch],
              log |-> Append(log, [via |-> "insert", before |-> bs[i], dc |-> drawcall,
                                   result |-> TRUE, panic |-> FALSE, after |-> r.batch]),
              at |-> i, panic |-> FALSE]
        ELSE [batches |-> Append(bs, n.batch), log |-> Append(log, n.call),
              at |-> IF n.ok THEN Len(bs) + 1 ELSE 0, panic |-> n.panic]

\* BatchList::insert from position i of the scan: .batches the list after the
\* call, .log the add calls made, .at the index of the batch that accepted
\* the drawcall (0 when none did), .panic when a call panicked.
RECURSIVE InsertFrom(_, _, _, _)
InsertFrom(bs, drawcall, i, log) ==
    IF i > Len(bs)
    THEN LET n == New(drawcall)
         IN  IF n.panic
             THEN [batches |-> bs, log |-> Append(log, n.call), at |-> 0, panic |-> TRUE]
             ELSE [batches |-> Append(bs, n.batch), log |-> Append(log, n.call),
                   at |-> IF n.ok THEN Len(bs) + 1 ELSE 0, panic |-> FALSE]
    ELSE LET r == Add(bs[i], drawcall)
             call == [via |-> "insert", before |-> bs[i], dc |-> drawcall,
                      result |-> r.ok, panic |-> r.panic, after |-> r.batch]
             bs2 == [bs EXCEPT ![i] = r.batch]
         IN  IF r.panic
             THEN [batches |-> bs2, log |-> Append(log, call), at |-> 0, panic |-> TRUE]
             ELSE IF r.ok
             THEN [batches |-> bs2, log |-> Append(log, call), at |-> i, panic |-> FALSE]
             ELSE InsertFrom(bs2, drawcall, i + 1, Append(log, call))

InsertResult(bs, drawcall) == InsertFrom(bs, drawcall, 1, <<>>)

\* History of accepted DrawCalls after an insert that was accepted at `at`.
OriginAfter(org, lenAfter, at, drawcall) ==
    [b \in 1 .. lenAfter |->
        LET old == IF b <= Len(org) THEN org[b] ELSE <<>>
        IN  IF b = at THEN Append(old, drawcall) ELSE old]

\* No frame: the value of `frame` when the last operation was not render().
NoFrame == [inserted |-> -1]

\* BatchList::insert
Insert(drawcall) ==
    /\ ~panicked
    /\ \E res \in {InsertResult(batches, drawcall)} :
           /\ batches' = res.batches
           /\ addLog' = res.log
           /\ panicked' = res.panic
           /\ origin' = OriginAfter(origin, Len(res.batches), res.at, drawcall)
           /\ drawn' = [b \in 1 .. Len(res.batches) |->
                           IF b <= Len(drawn) THEN drawn[b] ELSE FALSE]
    /\ lastOp' = "insert"
    /\ lastDc' = drawcall
    /\ inserted' = inserted + 1
    /\ keysSeen' = keysSeen \cup {KeyOf(drawcall)}
    /\ insertedOf' = [k \in keysSeen \cup {KeyOf(drawcall)} |->
                          (IF k \in keysSeen THEN insertedOf[k] ELSE 0)
                          + (IF k = KeyOf(drawcall) THEN 1 ELSE 0)]
    /\ glTrace' = <<>>
    /\ renderResult' = "none"
    /\ queued' = TRUE
    /\ frame' = NoFrame
    /\ UNCHANGED <<max_batch_size, redrawn>>
    /\ UNCHANGED <<texVars, inputVars, shaderVars>>

\* No DrawCall: the value of lastDc when the last operation was not insert().
NoDrawCall == [program |-> 0]

\* BatchList::clear
Clear ==
    /\ ~panicked
    /\ batches' = <<>>
    /\ origin' = <<>>
    /\ drawn' = <<>>
    /\ inserted' = 0
    /\ keysSeen' = {}
    /\ insertedOf' = <<>>
    /\ lastOp' = "clear"
    /\ addLog' = <<>>
    /\ lastDc' = NoDrawCall
    /\ glTrace' = <<>>
    /\ renderResult' = "none"
    /\ frame' = NoFrame
    /\ UNCHANGED <<max_batch_size, panicked, redrawn, queued>>
    /\ UNCHANGED <<texVars, inputVars, shaderVars>>

(***************************************************************************)
(* GraphicsManager: the frame pass                                         *)
(***************************************************************************)
\* Mesh::check: a mesh without a VAO or without an EBO cannot be drawn.
MeshCheck(mesh) ==
    IF mesh.vao = 0 THEN "MeshVAONotInitialized"
    ELSE IF mesh.ebo = 0 THEN "MeshEBONotInitialized"
    ELSE "Ok"

\* Batch::buffer_data that uploads the whole fixed-capacity buffer.
BufferData_WholeBuffer(self) ==
    LET size == SIZE_OF_F32 * BufferLen
        floats == size \div SIZE_OF_F32
    IN  << <<"BindBuffer", "ARRAY_BUFFER", self.batch_vbo>>,
           <<"BufferData", size, [j \in 0 .. (floats - 1) |-> self.buffer[j]]>> >>

\* Batch::buffer_data: the GL calls it issues.  BufferData reads `size`
\* bytes from the start of the buffer.
BufferData(self) ==
    LET size == SIZE_OF_F32 * self.obj_count * BATCH_INSTANCE_SIZE
        floats == size \div SIZE_OF_F32
    IN  << <<"BindBuffer", "ARRAY_BUFFER", self.batch_vbo>>,
           <<"BufferData", size, [j \in 0 .. (floats - 1) |-> self.buffer[j]]>> >>

\* GraphicsManager::draw that uploads the instance buffer after the draw call.
Draw_UploadAfterDraw(batch) ==
    LET check == MeshCheck(batch.mesh)
    IN  IF check # "Ok"
        THEN [result |-> check, calls |-> <<>>]
        ELSE [result |-> "Ok",
              calls |-> << <<"UseProgram", batch.program>>,
                           <<"BindTexture", batch.texture>>,
                           <<"BindVertexArray", batch.mesh.vao>>,
                           <<"BindBuffer", "ELEMENT_ARRAY_BUFFER", batch.mesh.ebo>> >>
                        \o << <<"DrawElementsInstanced", batch.mesh.indices_count,
                                batch.obj_count>> >>
                        \o BufferData(batch)]

\* GraphicsManager::draw that binds the program before it checks the mesh.
Draw_BindBeforeCheck(batch) ==
    LET check == MeshCheck(batch.mesh)
    IN  IF check # "Ok"
        THEN [result |-> check, calls |-> << <<"UseProgram", batch.program>> >>]
        ELSE [result |-> "Ok",
              calls |-> << <<"UseProgram", batch.program>>,
                           <<"BindTexture", batch.texture>>,
                           <<"BindVertexArray", batch.mesh.vao>>,
                           <<"BindBuffer", "ELEMENT_ARRAY_BUFFER", batch.mesh.ebo>> >>
                        \o BufferData(batch)
                        \o << <<"DrawElementsInstanced", batch.mesh.indices_count,
                                batch.obj_count>> >>]

\* GraphicsManager::draw: .result is what it returns, .calls the GL calls.
Draw(batch) ==
    LET check == MeshCheck(batch.mesh)
    IN  IF check # "Ok"
        THEN [result |-> check, calls |-> <<>>]
        ELSE [result |-> "Ok",
              calls |-> << <<"UseProgram", batch.program>>,
                           <<"BindTexture", batch.texture>>,
                           <<"BindVertexArray", batch.mesh.vao>>,
                           <<"BindBuffer", "ELEMENT_ARRAY_BUFFER", batch.mesh.ebo>> >>
                        \o BufferData(batch)
                        \o << <<"DrawElementsInstanced", batch.mesh.indices_count,
                                batch.obj_count>> >>]

\* The loop of render() from batch i on: .result is "Ok" when every draw
\* succeeded, else the first error; .count the number of batches drawn.
RECURSIVE DrawFrom(_, _, _)
DrawFrom(bs, i, calls) ==
    IF i > Len(bs)
    THEN [result |-> "Ok", calls |-> calls, count |-> Len(bs)]
    ELSE LET d == Draw(bs[i])
         IN  IF d.result # "Ok"
             THEN [result |-> d.result, calls |-> calls \o d.calls, count |-> i - 1]
             ELSE DrawFrom(bs, i + 1, calls \o d.calls)

\* GraphicsManager::render
Render ==
    /\ ~panicked
    /\ LET pass == DrawFrom(batches, 1, << <<"Clear">> >>)
       IN  /\ renderResult' = pass.result
           /\ redrawn' = (redrawn \/ \E b \in 1 .. pass.count : drawn[b])
           /\ IF pass.result = "Ok"
              THEN /\ batches' = <<>>
                   /\ origin' = <<>>
                   /\ drawn' = <<>>
                   /\ inserted' = 0
                   /\ keysSeen' = {}
                   /\ insertedOf' = <<>>
                   /\ glTrace' = pass.calls \o << <<"BatchListClear">>, <<"SwapWindow">> >>
              ELSE /\ glTrace' = pass.calls
                   /\ drawn' = [b \in 1 .. Len(batches) |-> drawn[b] \/ b <= pass.count]
                   /\ UNCHANGED <<batches, origin, inserted, keysSeen, insertedOf>>
    /\ lastOp' = "render"
    /\ addLog' = <<>>
    /\ lastDc' = NoDrawCall
    /\ queued' = FALSE
    /\ frame' = [batches |-> batches, inserted |-> inserted, queued |-> queued]
    /\ UNCHANGED <<max_batch_size, panicked>>
    /\ UNCHANGED <<texVars, inputVars, shaderVars>>


(***************************************************************************)
(* Textures                                                                *)
(***************************************************************************)
\* A u32 is held as its four bytes, least significant first: U32Of(n) is the
\* u32 of the number n < 2^31.
U32Of(n) == [k \in 0 .. 3 |-> (n \div (256 ^ k)) % 256]

\* Long multiplication of the u32 a and b: the products that fall on byte k,
\* the carry out of byte k, and byte k of the 64 bit product.
Term(a, b, i, k) == IF k - i \in 0 .. 3 THEN a[i] * b[k - i] ELSE 0
Column(a, b, k) == Term(a, b, 0, k) + Term(a, b, 1, k) + Term(a, b, 2, k) + Term(a, b, 3, k)
RECURSIVE Carry(_, _, _)
Carry(a, b, k) == IF k < 0 THEN 0 ELSE (Column(a, b, k) + Carry(a, b, k - 1)) \div 256
Digit(a, b, k) == (Column(a, b, k) + Carry(a, b, k - 1)) % 256

\* u32 multiplication: the wrapped product, and whether it overflowed.
MulU32(a, b) ==
    [val |-> [k \in 0 .. 3 |-> Digit(a, b, k)],
     overflow |-> \E k \in 4 .. 7 : Digit(a, b, k) # 0]

\* pixel_length * width * height in u32, multiplied left to right.
ProductU32(pixel_length, width, height) ==
    LET row == MulU32(U32Of(pixel_length), U32Of(width))
        all == MulU32(row.val, U32Of(height))
    IN  [val |-> all.val, overflow |-> row.overflow \/ all.overflow]

\* TextureFormat::pixel_length
PixelLength(format) == IF format = "Rgb" THEN 3 ELSE 4

\* The min filter modes for which from_bytes generates mipmaps.
MipmapModes ==
    {"NearestMipmapNearest", "LinearMipmapNearest", "NearestMipmapLinear",
     "LinearMipmapLinear"}

\* TextureOptions::default
DefaultOptions ==
    [format |-> "Rgba", h_wrap_mode |-> "Repeat", v_wrap_mode |-> "Repeat",
     min_filter_mode |-> "NearestMipmapNearest", max_filter_mode |-> "Nearest"]

\* The texture options, widths, heights and data lengths offered.
TextureOptions ==
    {[DefaultOptions EXCEPT !.format = f, !.min_filter_mode = m] :
        f \in {"Rgb", "Rgba"}, m \in {"Nearest", "NearestMipmapNearest"}}
Widths == {2, 65536}
Heights == {2, 65536}
DataLens == {0, 10, 12, 16}

\* The products of the sizes offered, computed once.
ByteLengths ==
    [pixel_length \in {3, 4}, width \in Widths, height \in Heights |->
        ProductU32(pixel_length, width, height)]
ByteLength(pixel_length, width, height) == ByteLengths[pixel_length, width, height]

\* No Texture: the texture of an operation that created none.
NoTexture == [id |-> 0]

\* The GL calls that create and fill texture `id`.
TextureCalls(id, width, height, format, options, mipmap) ==
    << <<"GenTextures", id>>,
       <<"BindTexture", id>>,
       <<"TexImage2D", width, height, format>>,
       <<"TexParameteri", "TEXTURE_WRAP_S", options.h_wrap_mode>>,
       <<"TexParameteri", "TEXTURE_WRAP_T", options.v_wrap_mode>>,
       <<"TexParameteri", "TEXTURE_MIN_FILTER", options.min_filter_mode>>,
       <<"TexParameteri", "TEXTURE_MAG_FILTER", options.max_filter_mode>> >>
    \o (IF mipmap THEN << <<"GenerateMipmap">> >> ELSE <<>>)
    \o << <<"BindTexture", 0>> >>

\* from_bytes expecting 4 bytes per pixel whatever the format.
FromBytes_FourBytes(len, options, width, height, id) ==
    LET expected == ByteLength(4, width, height)
    IN  IF expected.overflow /\ overflow_checks
        THEN [result |-> "panic", error |-> <<>>, calls |-> <<>>, texture |-> NoTexture]
        ELSE IF U32Of(len) # expected.val
        THEN [result |-> "InvalidTextureData",
              error |-> <<PixelLength(options.format), width, height, len>>,
              calls |-> <<>>, texture |-> NoTexture]
        ELSE [result |-> "Ok", error |-> <<>>,
              calls |-> TextureCalls(id, width, height, options.format, options,
                                     options.min_filter_mode \in MipmapModes),
              texture |-> [id |-> id, size |-> <<width, height>>, options |-> options]]

\* from_bytes generating the texture name before it looks at the data.
FromBytes_GenerateFirst(len, options, width, height, id) ==
    LET expected == ByteLength(PixelLength(options.format), width, height)
    IN  IF expected.overflow /\ overflow_checks
        THEN [result |-> "panic", error |-> <<>>, calls |-> <<>>, texture |-> NoTexture]
        ELSE IF U32Of(len) # expected.val
        THEN [result |-> "InvalidTextureData",
              error |-> <<PixelLength(options.format), width, height, len>>,
              calls |-> << <<"GenTextures", id>> >>, texture |-> NoTexture]
        ELSE [result |-> "Ok", error |-> <<>>,
              calls |-> TextureCalls(id, width, height, options.format, options,
                                     options.min_filter_mode \in MipmapModes),
              texture |-> [id |-> id, size |-> <<width, height>>, options |-> options]]

\* Texture::from_bytes on data of length len, when gl::GenTextures yields id.
FromBytes(len, options, width, height, id) ==
    LET expected == ByteLength(PixelLength(options.format), width, height)
    IN  IF expected.overflow /\ overflow_checks
        THEN [result |-> "panic", error |-> <<>>, calls |-> <<>>, texture |-> NoTexture]
        ELSE IF U32Of(len) # expected.val
        THEN [result |-> "InvalidTextureData",
              error |-> <<PixelLength(options.format), width, height, len>>,
              calls |-> <<>>, texture |-> NoTexture]
        ELSE [result |-> "Ok", error |-> <<>>,
              calls |-> TextureCalls(id, width, height, options.format, options,
                                     options.min_filter_mode \in MipmapModes),
              texture |-> [id |-> id, size |-> <<width, height>>, options |-> options]]

\* GraphicsManager::create_texture_advanced: RGBA data only.
CreateTextureAdvanced(len, width, height, options, id) ==
    LET expected == ByteLength(4, width, height)
    IN  IF expected.overflow /\ overflow_checks
        THEN [result |-> "panic", error |-> <<>>, calls |-> <<>>, texture |-> NoTexture]
        ELSE IF U32Of(len) # expected.val
        THEN [result |-> "InvalidTextureData", error |-> <<width, height, len>>,
              calls |-> <<>>, texture |-> NoTexture]
        ELSE [result |-> "Ok", error |-> <<>>,
              calls |-> TextureCalls(id, width, height, "Rgba", options, TRUE),
              texture |-> [id |-> id, size |-> <<width, height>>,
                           options |-> [options EXCEPT !.format = "Rgba"]]]

\* The texture names that the GL calls generate.
Generated(calls) ==
    {calls[i][2] : i \in {j \in DOMAIN calls : calls[j][1] = "GenTextures"}}

\* The effect of a texture operation that returned r to its caller.
Created(op, input, r) ==
    /\ texResult' = [op |-> op, input |-> input, result |-> r.result,
                     error |-> r.error, calls |-> r.calls, texture |-> r.texture]
    /\ glNext' = glNext + Cardinality(Generated(r.calls))
    /\ glLive' = glLive \cup Generated(r.calls)
    /\ owned' = IF r.result = "Ok" THEN Append(owned, r.texture.id) ELSE owned

TextureFromBytes ==
    /\ texResult.result # "panic"
    /\ glNext <= MaxTextures
    /\ Len(owned) < MaxOwned
    /\ \E len \in DataLens, options \in TextureOptions, width \in Widths, height \in Heights :
        Created("from_bytes",
                [len |-> len, options |-> options, width |-> width, height |-> height],
                FromBytes(len, options, width, height, glNext))
    /\ UNCHANGED <<overflow_checks, glDeleted, cache>>
    /\ UNCHANGED <<batchVars, inputVars, shaderVars>>

CreateTexture ==
    /\ texResult.result # "panic"
    /\ glNext <= MaxTextures
    /\ Len(owned) < MaxOwned
    /\ \E len \in DataLens, options \in TextureOptions, width \in Widths, height \in Heights :
        /\ options.format = "Rgba"
        /\ Created("create_texture_advanced",
                   [len |-> len, options |-> options, width |-> width, height |-> height],
                   CreateTextureAdvanced(len, width, height, options, glNext))
    /\ UNCHANGED <<overflow_checks, glDeleted, cache>>
    /\ UNCHANGED <<batchVars, inputVars, shaderVars>>

\* The image files: ResourceLoader::load_png yields the size of the image, or
\* fails.
Paths == {"a.png", "b.png", "missing.png"}
LoadPng(path) ==
    IF path = "missing.png" THEN [ok |-> FALSE, width |-> 0, height |-> 0]
    ELSE [ok |-> TRUE, width |-> 2, height |-> 2]

\* A lookup that never finds the path in the cache.
Cached_Never(path) == FALSE

\* self.textures.get(path) finds a Texture.
Cached(path) == path \in DOMAIN cache

\* GraphicsManager::get_texture: the cached Texture of the path, else the
\* image is loaded, a GL texture made of it and the Texture cached; the
\* caller gets a copy of the cached Texture.
GetTexture ==
    /\ texResult.result # "panic"
    /\ Len(owned) < MaxOwned
    /\ \E path \in Paths :
        IF Cached(path)
        THEN /\ texResult' = [op |-> "get_texture", input |-> path, result |-> "Ok",
                              error |-> <<>>, calls |-> <<>>, texture |-> cache[path]]
             /\ owned' = Append(owned, cache[path].id)
             /\ UNCHANGED <<glNext, glLive, cache>>
        ELSE LET image == LoadPng(path)
                 texture == [id |-> glNext, size |-> <<image.width, image.height>>]
             IN  IF ~image.ok
                 THEN /\ texResult' = [op |-> "get_texture", input |-> path,
                                       result |-> "ResourceError", error |-> <<path>>,
                                       calls |-> << <<"load_png", path>> >>,
                                       texture |-> NoTexture]
                      /\ UNCHANGED <<glNext, glLive, owned, cache>>
                 ELSE /\ glNext <= MaxTextures
                      /\ texResult' = [op |-> "get_texture", input |-> path, result |-> "Ok",
                                       error |-> <<>>,
                                       calls |-> << <<"load_png", path>> >>
                                                 \o TextureCalls(glNext, image.width,
                                                                 image.height, "Rgba",
                                                                 DefaultOptions, TRUE),
                                       texture |-> texture]
                      /\ glNext' = glNext + 1
                      /\ glLive' = glLive \cup {glNext}
                      /\ cache' = [p \in DOMAIN cache \cup {path} |->
                                      IF p = path THEN texture ELSE cache[p]]
                      /\ owned' = Append(owned, texture.id)
    /\ UNCHANGED <<overflow_checks, glDeleted>>
    /\ UNCHANGED <<batchVars, inputVars, shaderVars>>

\* A Texture value goes out of scope: Drop for Texture deletes its GL texture.
DropTexture ==
    /\ texResult.result # "panic"
    /\ \E i \in 1 .. Len(owned) :
        LET id == owned[i]
        IN  /\ owned' = [k \in 1 .. (Len(owned) - 1) |->
                            IF k < i THEN owned[k] ELSE owned[k + 1]]
            /\ glLive' = glLive \ {id}
            /\ glDeleted' = [n \in DOMAIN glDeleted \cup {id} |->
                                IF n = id
                                THEN (IF id \in DOMAIN glDeleted THEN 2 ELSE 1)
                                ELSE glDeleted[n]]
            /\ texResult' = [op |-> "drop", input |-> id, result |-> "Ok", error |-> <<>>,
                             calls |-> << <<"DeleteTextures", id>> >>, texture |-> NoTexture]
    /\ UNCHANGED <<overflow_checks, glNext, cache>>
    /\ UNCHANGED <<batchVars, inputVars, shaderVars>>

\* No texture yet, in one of the given builds.
InitTextures(builds) ==
    /\ overflow_checks \in builds
    /\ glNext = 1
    /\ glLive = {}
    /\ glDeleted = <<>>
    /\ owned = <<>>
    /\ cache = <<>>
    /\ texResult = [op |-> "none", input |-> <<>>, result |-> "none", error |-> <<>>,
                    calls |-> <<>>, texture |-> NoTexture]

NextTextures ==
    \/ TextureFromBytes
    \/ CreateTexture
    \/ GetTexture
    \/ DropTexture


(***************************************************************************)
(* Input                                                                   *)
(***************************************************************************)
Keycodes == {"Space"}
MouseButtons == {"Left"}
\* The mouse positions offered: the cursor moves along one line.
Positions == {<<0, 0>>, <<1, 0>>}

\* The events that SDL can deliver when the keys and buttons of h are held
\* and the cursor is at c: a key press or a key repeat, a key press without
\* keycode, the release of a held key, the press of a button that is up, the
\* release of a held button, a turn of the wheel, a move of the cursor, and
\* an event the InputManager does not handle.
Possible(h, c) ==
    {<<"KeyDown", k>> : k \in Keycodes \cup {"None"}}
    \cup {<<"KeyUp", k>> : k \in Keycodes \cap h}
    \cup {<<"MouseButtonDown", b>> : b \in MouseButtons \ h}
    \cup {<<"MouseButtonUp", b>> : b \in MouseButtons \cap h}
    \cup {<<"MouseWheel", 1>>}
    \cup {<<"MouseMotion", p[1], p[2], p[1] - c[1], p[2] - c[2]>> : p \in Positions \ {c}}
    \cup {<<"Quit">>}

\* The keys and buttons held, and the cursor, after the event.
HeldAfter(h, event) ==
    IF event[1] \in {"KeyDown", "MouseButtonDown"} /\ event[2] # "None" THEN h \cup {event[2]}
    ELSE IF event[1] \in {"KeyUp", "MouseButtonUp"} THEN h \ {event[2]}
    ELSE h
CursorAfter(c, event) ==
    IF event[1] = "MouseMotion" THEN <<event[2], event[3]>> ELSE c

\* The sequences of at most n events that one update can poll.
RECURSIVE Polls(_, _, _)
Polls(h, c, n) ==
    IF n = 0 THEN {<<>>}
    ELSE {<<>>} \cup
         UNION {{<<event>> \o rest :
                    rest \in Polls(HeldAfter(h, event), CursorAfter(c, event), n - 1)} :
                event \in Possible(h, c)}

\* KeyState::update
KeyStateUpdate(keystate, down) == [down |-> down, changed |-> down # keystate.down]

\* KeyState::pressed, KeyState::released
Pressed(keystate) == keystate.down /\ keystate.changed
Released(keystate) == ~keystate.down /\ keystate.changed

\* map.entry(key).or_insert(KeyState { down: initial, changed: false }).update(down)
EntryUpdate(map, key, initial, down) ==
    [k \in DOMAIN map \cup {key} |->
        IF k = key
        THEN KeyStateUpdate(IF key \in DOMAIN map THEN map[key]
                            ELSE [down |-> initial, changed |-> FALSE], down)
        ELSE map[k]]

\* One iteration of the loop of InputManager::update: the match on the event.
HandleEvent(im, event) ==
    IF event[1] = "KeyDown" THEN
        IF event[2] = "None" THEN im
        ELSE [im EXCEPT !.key_state = EntryUpdate(@, event[2], FALSE, TRUE)]
    ELSE IF event[1] = "KeyUp" THEN
        IF event[2] = "None" THEN im
        ELSE [im EXCEPT !.key_state = EntryUpdate(@, event[2], TRUE, FALSE)]
    ELSE IF event[1] = "MouseButtonDown" THEN
        [im EXCEPT !.mouse_state = EntryUpdate(@, event[2], FALSE, TRUE)]
    ELSE IF event[1] = "MouseButtonUp" THEN
        [im EXCEPT !.mouse_state = EntryUpdate(@, event[2], TRUE, TRUE)]
    ELSE IF event[1] = "MouseWheel" THEN
        [im EXCEPT !.mouse_wheel = event[2]]
    ELSE IF event[1] = "MouseMotion" THEN
        [im EXCEPT !.mouse_position = <<event[2], event[3]>>,
                   !.mouse_position_relative = <<event[4], event[5]>>]
    ELSE [im EXCEPT !.passthrough_events = Append(@, event)]

\* The loop of InputManager::update over the polled events, from event i on.
RECURSIVE PollFrom(_, _, _)
PollFrom(im, events, i) ==
    IF i > Len(events) THEN im
    ELSE PollFrom(HandleEvent(im, events[i]), events, i + 1)

\* InputManager::update before its loop: wheel and relative position are
\* reset and every key's KeyState is updated with its own down.
BeginUpdate ==
    [key_state |-> [k \in DOMAIN key_state |->
                        KeyStateUpdate(key_state[k], key_state[k].down)],
     mouse_state |-> mouse_state,
     mouse_position |-> mouse_position,
     mouse_position_relative |-> <<0, 0>>,
     mouse_wheel |-> 0,
     passthrough_events |-> <<>>]

RECURSIVE HeldAfterAll(_, _, _)
HeldAfterAll(h, events, i) ==
    IF i > Len(events) THEN h ELSE HeldAfterAll(HeldAfter(h, events[i]), events, i + 1)
RECURSIVE CursorAfterAll(_, _, _)
CursorAfterAll(c, events, i) ==
    IF i > Len(events) THEN c ELSE CursorAfterAll(CursorAfter(c, events[i]), events, i + 1)

\* InputManager::update
Update ==
    /\ \E events \in Polls(held, cursor, MaxEvents) :
        \E im \in {PollFrom(BeginUpdate, events, 1)} :
            /\ key_state' = im.key_state
            /\ mouse_state' = im.mouse_state
            /\ mouse_position' = im.mouse_position
            /\ mouse_position_relative' = im.mouse_position_relative
            /\ mouse_wheel' = im.mouse_wheel
            /\ returned' = im.passthrough_events
            /\ polled' = events
            /\ held' = HeldAfterAll(held, events, 1)
            /\ cursor' = CursorAfterAll(cursor, events, 1)
    /\ before' = [held |-> held, mouse_position |-> mouse_position]
    /\ UNCHANGED <<batchVars, texVars, shaderVars>>

\* InputManager::key: the KeyState of the keycode, or that of a key that is
\* up and unchanged when the keycode is not in key_state.
Key(keycode) ==
    IF keycode \in DOMAIN key_state THEN key_state[keycode]
    ELSE [down |-> FALSE, changed |-> FALSE]

\* InputManager::button: the KeyState of the button, or the error
\* MouseButtonNotFound when the button is not in mouse_state.
Button(button) ==
    IF button \in DOMAIN mouse_state THEN mouse_state[button]
    ELSE [error |-> "MouseButtonNotFound", button |-> button]

\* InputManager::new; the keys and buttons held when the program starts are
\* one of the given sets, and the cursor is at the origin.
InitInput(helds) ==
    /\ key_state = <<>>
    /\ mouse_state = <<>>
    /\ mouse_position = <<0, 0>>
    /\ mouse_position_relative = <<0, 0>>
    /\ mouse_wheel = 0
    /\ held \in helds
    /\ cursor = <<0, 0>>
    /\ polled = <<>>
    /\ returned = <<>>
    /\ before = [held |-> held, mouse_position |-> <<0, 0>>]

NextInput == Update


(***************************************************************************)
(* Shaders                                                                 *)
(***************************************************************************)
ShaderTypes == {"VERTEX_SHADER", "FRAGMENT_SHADER"}

\* Shader::from_source when gl::CreateShader yields id and the compilation
\* succeeds or not.
FromSource(shader_type, id, success) ==
    LET compile == << <<"CreateShader", shader_type, id>>,
                      <<"ShaderSource", id>>,
                      <<"CompileShader", id>>,
                      <<"GetShaderiv", id, "COMPILE_STATUS">> >>
    IN  IF success
        THEN [result |-> "Ok", calls |-> compile,
              value |-> [id |-> id, type |-> shader_type]]
        ELSE [result |-> "ShaderCompilationFailed",
              calls |-> compile \o << <<"GetShaderiv", id, "INFO_LOG_LENGTH">>,
                                      <<"GetShaderInfoLog", id>> >>,
              value |-> [id |-> 0, type |-> shader_type]]

\* Program::from_shaders when gl::CreateProgram yields program_id and the
\* link succeeds or not.
FromShaders(vertex_shader, fragment_shader, program_id, success) ==
    LET link == << <<"CreateProgram", program_id>>,
                   <<"AttachShader", program_id, vertex_shader.id>>,
                   <<"AttachShader", program_id, fragment_shader.id>>,
                   <<"LinkProgram", program_id>>,
                   <<"GetProgramiv", program_id, "LINK_STATUS">> >>
    IN  IF ~success
        THEN [result |-> "ProgramLinkingFailed",
              calls |-> link \o << <<"GetProgramiv", program_id, "INFO_LOG_LENGTH">>,
                                   <<"GetProgramInfoLog", program_id>> >>,
              value |-> [id |-> 0]]
        ELSE [result |-> "Ok",
              calls |-> link \o << <<"DetachShader", program_id, vertex_shader.id>>,
                                   <<"DetachShader", program_id, fragment_shader.id>>,
                                   <<"DeleteShader", vertex_shader.id>>,
                                   <<"DeleteShader", fragment_shader.id>> >>,
              value |-> [id |-> program_id]]

\* What the GL calls do to the shader objects and the attachments.
CallsNamedIn(calls, name) == {i \in DOMAIN calls : calls[i][1] = name}
RECURSIVE AttachedAfter(_, _, _)
AttachedAfter(att, calls, i) ==
    IF i > Len(calls) THEN att
    ELSE AttachedAfter(
             IF calls[i][1] = "AttachShader" THEN att \cup {<<calls[i][2], calls[i][3]>>}
             ELSE IF calls[i][1] = "DetachShader" THEN att \ {<<calls[i][2], calls[i][3]>>}
             ELSE att,
             calls, i + 1)

\* Shader::from_source, as Shader::from_file calls it.
ShaderFromSource ==
    /\ glShaderNext <= MaxShaders
    /\ \E shader_type \in ShaderTypes, success \in BOOLEAN :
        \E r \in {FromSource(shader_type, glShaderNext, success)} :
            /\ shaderResult' = [op |-> "from_source", input |-> <<shader_type>>,
                                result |-> r.result, calls |-> r.calls, value |-> r.value]
            /\ compiled' = IF r.result = "Ok" THEN compiled \cup {r.value} ELSE compiled
    /\ glShaderNext' = glShaderNext + 1
    /\ glShaders' = glShaders \cup {glShaderNext}
    /\ UNCHANGED <<glProgramNext, glPrograms, attached>>
    /\ UNCHANGED <<batchVars, texVars, inputVars>>

\* Program::from_shaders on a vertex and a fragment shader that compiled, as
\* Program::load_shaders calls it; the link succeeds or fails.
ProgramFromShaders ==
    /\ glProgramNext <= MaxPrograms
    /\ \E vertex_shader, fragment_shader \in compiled, success \in BOOLEAN :
        /\ vertex_shader.type = "VERTEX_SHADER"
        /\ fragment_shader.type = "FRAGMENT_SHADER"
        /\ \E r \in {FromShaders(vertex_shader, fragment_shader, glProgramNext, success)} :
            /\ shaderResult' = [op |-> "from_shaders",
                                input |-> <<vertex_shader, fragment_shader>>,
                                result |-> r.result, calls |-> r.calls, value |-> r.value]
            /\ glShaders' = glShaders \ {r.calls[i][2] : i \in CallsNamedIn(r.calls, "DeleteShader")}
            /\ attached' = AttachedAfter(attached, r.calls, 1)
        /\ compiled' = compiled \ {vertex_shader, fragment_shader}
    /\ glProgramNext' = glProgramNext + 1
    /\ glPrograms' = glPrograms \cup {glProgramNext}
    /\ UNCHANGED glShaderNext
    /\ UNCHANGED <<batchVars, texVars, inputVars>>

InitShaders ==
    /\ glShaderNext = 1
    /\ glShaders = {}
    /\ glProgramNext = 1
    /\ glPrograms = {}
    /\ attached = {}
    /\ compiled = {}
    /\ shaderResult = [op |-> "none", input |-> <<>>, result |-> "none", calls |-> <<>>,
                       value |-> [id |-> 0]]

NextShaders ==
    \/ ShaderFromSource
    \/ ProgramFromShaders


\* BatchList::new with batches of max_batch_size instances.
InitBatches(size) ==
    /\ batches = <<>>
    /\ max_batch_size = size
    /\ panicked = FALSE
    /\ lastOp = "new"
    /\ lastDc = NoDrawCall
    /\ addLog = <<>>
    /\ origin = <<>>
    /\ inserted = 0
    /\ keysSeen = {}
    /\ insertedOf = <<>>
    /\ glTrace = <<>>
    /\ renderResult = "none"
    /\ drawn = <<>>
    /\ redrawn = FALSE
    /\ queued = FALSE
    /\ frame = NoFrame

\* The program after construction, in a build without overflow checks and
\* with no key or button held.
Init ==
    /\ InitBatches(MAX_BATCH_SIZE)
    /\ InitTextures({FALSE})
    /\ InitInput({{}})
    /\ InitShaders

\* The same in either build.
InitAnyBuild ==
    /\ InitBatches(MAX_BATCH_SIZE)
    /\ InitTextures(BOOLEAN)
    /\ InitInput({{}})
    /\ InitShaders

\* The same with any keys and buttons held.
InitAnyHeld ==
    /\ InitBatches(MAX_BATCH_SIZE)
    /\ InitTextures({FALSE})
    /\ InitInput(SUBSET (Keycodes \cup MouseButtons))
    /\ InitShaders

\* A DrawCall is queued (GraphicsManager::draw_sprite builds it and calls
\* BatchList::insert).
QueueDrawCall ==
    \E dc \in DrawCalls : inserted < MaxInserts /\ Insert(dc)

Next ==
    \/ QueueDrawCall
    \/ Clear
    \/ Render

Spec == Init /\ [][Next]_vars

\* The texture operations alone.
SpecTextures == InitAnyBuild /\ [][NextTextures]_vars

\* The shader operations alone.
SpecShaders == Init /\ [][NextShaders]_vars

\* The input manager alone.
SpecInput == InitAnyHeld /\ [][NextInput]_vars

(***************************************************************************)
(* The alternating-texture scenario: MAX_BATCH_SIZE = 256, 300 DrawCalls   *)
(* of one program and mesh, texture 1 for the 1st, 3rd, ... and texture 2  *)
(* for the 2nd, 4th, ... insert.                                           *)
(***************************************************************************)
ScenarioDrawCall(n) ==
    MkDrawCall(1, QuadMesh, IF n % 2 = 0 THEN 1 ELSE 2, TexPosA, MatrixA)

ScenarioInit ==
    /\ InitBatches(256)
    /\ InitTextures({FALSE})
    /\ InitInput({{}})
    /\ InitShaders

ScenarioNext == inserted < 300 /\ Insert(ScenarioDrawCall(inserted))

SpecScenario == ScenarioInit /\ [][ScenarioNext]_vars

(***************************************************************************)
(* Helpers of the properties                                               *)
(***************************************************************************)
RECURSIVE SumObjCount(_)
SumObjCount(bs) ==
    IF bs = <<>> THEN 0 ELSE bs[1].obj_count + SumObjCount(Tail(bs))

CeilDiv(n, d) == (n + d - 1) \div d

BatchIndices == 1 .. Len(batches)

\* The batches of the list that hold texture t.
WithTexture(t) == {b \in BatchIndices : batches[b].texture = t}

RECURSIVE SumOver(_)
SumOver(S) ==
    IF S = {} THEN 0
    ELSE LET b == CHOOSE x \in S : TRUE
         IN  batches[b].obj_count + SumOver(S \ {b})

\* Instance record k of a batch, read back from its buffer.
InstanceAt(batch, k) ==
    [tex_position |-> [i \in 0 .. 3 |-> batch.buffer[k * BATCH_INSTANCE_SIZE + i]],
     matrix |-> [c \in 0 .. 3 |-> [r \in 0 .. 3 |->
                    batch.buffer[k * BATCH_INSTANCE_SIZE + 4 + 4 * c + r]]]]

(***************************************************************************)
(* Properties                                                              *)
(***************************************************************************)

\* C1: from an empty list, N insert() calls that all share one (program,
\* mesh, texture) leave exactly ceil(N / MAX_BATCH_SIZE) batches, each with
\* obj_count <= MAX_BATCH_SIZE, whose obj_counts sum to N.
C1_SameKeyBatchCount ==
    Cardinality(keysSeen) <= 1 =>
        /\ Len(batches) = CeilDiv(inserted, max_batch_size)
        /\ \A b \in BatchIndices : batches[b].obj_count <= max_batch_size
        /\ SumObjCount(batches) = inserted

C1_Witness ==
    /\ Cardinality(keysSeen) = 1
    /\ inserted > 2 * max_batch_size
    /\ Len(batches) = 3
    /\ batches[3].obj_count < max_batch_size

\* C2: every instance record of a batch came from a DrawCall with the
\* batch's program, mesh and texture id; DrawCalls of different textures
\* never share a batch.
C2_BatchHomogeneous ==
    /\ Len(origin) = Len(batches)
    /\ \A b \in BatchIndices :
        /\ Len(origin[b]) = batches[b].obj_count
        /\ \A k \in 1 .. Len(origin[b]) :
            /\ origin[b][k].program = batches[b].program
            /\ origin[b][k].mesh = batches[b].mesh
            /\ origin[b][k].texture = batches[b].texture
        /\ \A k1, k2 \in 1 .. Len(origin[b]) :
            origin[b][k1].texture = origin[b][k2].texture

C2_Witness ==
    /\ lastOp = "insert"
    /\ \E b1, b2 \in BatchIndices :
        /\ batches[b1].texture # batches[b2].texture
        /\ batches[b1].program = batches[b2].program
        /\ batches[b1].mesh = batches[b2].mesh
        /\ batches[b1].obj_count = 2
        /\ batches[b2].obj_count >= 1

\* C3: obj_count never exceeds MAX_BATCH_SIZE and every write of an accepted
\* add lies below index MAX_BATCH_SIZE * BATCH_INSTANCE_SIZE.
C3_CapacityRespected ==
    /\ ~panicked
    /\ \A b \in BatchIndices :
        /\ batches[b].obj_count <= max_batch_size
        /\ DOMAIN batches[b].buffer = 0 .. (max_batch_size * BATCH_INSTANCE_SIZE - 1)
    /\ \A e \in 1 .. Len(addLog) :
        /\ ~addLog[e].panic
        /\ addLog[e].result =>
            \A j \in WrittenSlots(addLog[e].before.obj_count * BATCH_INSTANCE_SIZE) :
                j < max_batch_size * BATCH_INSTANCE_SIZE

C3_Witness ==
    /\ lastOp = "insert"
    /\ Len(addLog) >= 2
    /\ addLog[1].before.obj_count = max_batch_size
    /\ KeyOf(addLog[1].before) = KeyOf(lastDc)
    /\ addLog[Len(addLog)].result
    /\ addLog[Len(addLog)].before.obj_count = max_batch_size - 1

\* C4 as stated: the scenario ends with exactly 4 batches, 2 per texture,
\* and 150 objects per texture.
C4_FourBatches ==
    inserted = 300 =>
        /\ Len(batches) = 4
        /\ Cardinality(WithTexture(1)) = 2
        /\ Cardinality(WithTexture(2)) = 2
        /\ SumOver(WithTexture(1)) = 150
        /\ SumOver(WithTexture(2)) = 150

\* C4 amended: the scenario ends with exactly 2 batches, 1 per texture, each
\* with obj_count 150.
C4_TwoBatches ==
    inserted = 300 =>
        /\ Len(batches) = 2
        /\ Cardinality(WithTexture(1)) = 1
        /\ Cardinality(WithTexture(2)) = 1
        /\ SumOver(WithTexture(1)) = 150
        /\ SumOver(WithTexture(2)) = 150
        /\ \A b \in BatchIndices : batches[b].obj_count = 150

C4_Witness ==
    /\ inserted = 300
    /\ max_batch_size = 256
    /\ lastOp = "insert"
    /\ lastDc.texture = 2

\* The batches of the list that insert(dc) can add dc to.
Fits(dc) ==
    {b \in BatchIndices :
        /\ KeyOf(batches[b]) = KeyOf(dc)
        /\ batches[b].obj_count < max_batch_size}

\* C5: insert(dc) adds dc to the lowest-index batch with dc's key and room
\* and changes no other batch; without such a batch it appends exactly one
\* new batch and changes no existing batch.
C5_FirstFit ==
    [][ inserted' = inserted + 1 =>
          LET dc == lastDc'
          IN  IF Fits(dc) # {}
              THEN LET b0 == CHOOSE b \in Fits(dc) : \A c \in Fits(dc) : b <= c
                   IN  /\ Len(batches') = Len(batches)
                       /\ \A b \in BatchIndices : b # b0 => batches'[b] = batches[b]
                       /\ batches'[b0].obj_count = batches[b0].obj_count + 1
                       /\ KeyOf(batches'[b0]) = KeyOf(batches[b0])
                       /\ InstanceAt(batches'[b0], batches[b0].obj_count)
                            = [tex_position |-> dc.tex_position, matrix |-> dc.matrix]
              ELSE /\ Len(batches') = Len(batches) + 1
                   /\ \A b \in BatchIndices : batches'[b] = batches[b]
                   /\ KeyOf(batches'[Len(batches')]) = KeyOf(dc)
                   /\ batches'[Len(batches')].obj_count = 1
      ]_vars

\* A state an insert reached by passing a full batch and a batch of another
\* key before the batch that took the DrawCall.
C5_Witness ==
    /\ lastOp = "insert"
    /\ Len(addLog) = 3
    /\ Len(batches) = 3
    /\ addLog[1].before.obj_count = max_batch_size
    /\ KeyOf(addLog[1].before) = KeyOf(lastDc)
    /\ KeyOf(addLog[2].before) # KeyOf(lastDc)
    /\ addLog[3].via = "insert"
    /\ addLog[3].result

\* C6: add on a batch with obj_count = MAX_BATCH_SIZE returns false and
\* leaves obj_count and the buffer as they were, key match or not.
C6_FullBatchRejects ==
    \A e \in 1 .. Len(addLog) :
        addLog[e].before.obj_count = max_batch_size =>
            /\ ~addLog[e].panic
            /\ addLog[e].result = FALSE
            /\ addLog[e].after.obj_count = addLog[e].before.obj_count
            /\ addLog[e].after.buffer = addLog[e].before.buffer

C6_Witness ==
    \E e \in 1 .. Len(addLog) :
        /\ addLog[e].before.obj_count = max_batch_size
        /\ KeyOf(addLog[e].before) = KeyOf(addLog[e].dc)
        /\ addLog[e].result = FALSE

\* C7: add with a DrawCall of another program, mesh or texture returns false
\* and leaves buffer, obj_count and key as they were; the same call made
\* again is rejected again and changes nothing.
C7_MismatchRejects ==
    \A e \in 1 .. Len(addLog) :
        KeyOf(addLog[e].dc) # KeyOf(addLog[e].before) =>
            /\ ~addLog[e].panic
            /\ addLog[e].result = FALSE
            /\ addLog[e].after = addLog[e].before
            /\ Add(addLog[e].after, addLog[e].dc)
                 = [ok |-> FALSE, batch |-> addLog[e].before, panic |-> FALSE]

\* One insert that was rejected by a batch of another program, by one of
\* another mesh and by one of another texture, each with room.
C7_Witness ==
    /\ \E e \in 1 .. Len(addLog) :
        /\ addLog[e].dc.program # addLog[e].before.program
        /\ addLog[e].before.obj_count < max_batch_size
    /\ \E e \in 1 .. Len(addLog) :
        /\ addLog[e].dc.mesh # addLog[e].before.mesh
        /\ addLog[e].before.obj_count < max_batch_size
    /\ \E e \in 1 .. Len(addLog) :
        /\ addLog[e].dc.texture # addLog[e].before.texture
        /\ addLog[e].before.obj_count < max_batch_size

C9_NothingLost ==
    /\ ~panicked
    /\ SumObjCount(batches) = inserted
    /\ lastOp = "insert" =>
        /\ Len(addLog) >= 1
        /\ addLog[Len(addLog)].result
        /\ \A e \in 1 .. Len(addLog) : ~addLog[e].panic

C9_Witness ==
    /\ inserted = MaxInserts
    /\ Cardinality(keysSeen) >= 2
    /\ Len(batches) > Cardinality(keysSeen)
    /\ \E b \in BatchIndices : batches[b].obj_count = max_batch_size

\* C10: after every render() the BatchList is empty, and no render() draws a
\* batch an earlier render() drew.
C10_RenderEmpties ==
    /\ lastOp = "render" => Len(batches) = 0
    /\ ~redrawn

(***************************************************************************)
(* Properties of the frame pass                                            *)
(***************************************************************************)
\* Calls of one draw(): program, texture, vertex array, element buffer,
\* instance buffer bind, instance buffer upload, instanced draw.
CallsPerBatch == 7

\* Position in glTrace before the calls of the b-th batch drawn.
GroupBase(b) == 1 + CallsPerBatch * (b - 1)

\* The calls of glTrace named `name`.
CallsNamed(name) == {k \in 1 .. Len(glTrace) : glTrace[k][1] = name}

\* Number of batches the last render() drew.
DrawnGroups ==
    (Len(glTrace) - (IF renderResult = "Ok" THEN 3 ELSE 1)) \div CallsPerBatch

RECURSIVE SumInstances(_)
SumInstances(S) ==
    IF S = {} THEN 0
    ELSE LET k == CHOOSE x \in S : TRUE
         IN  glTrace[k][3] + SumInstances(S \ {k})

\* C11: a successful render() clears the buffers, then for each batch in list
\* order binds program, texture and mesh, uploads the instance buffer and
\* issues one instanced draw of obj_count instances, then clears the
\* BatchList, then swaps; as many draws as batches, instances summing to the
\* DrawCalls queued.
C11_RenderOrder ==
    renderResult = "Ok" =>
        LET fb == frame.batches
            n == Len(fb)
        IN  /\ Len(glTrace) = CallsPerBatch * n + 3
            /\ glTrace[1] = <<"Clear">>
            /\ \A b \in 1 .. n :
                LET g == GroupBase(b)
                IN  /\ glTrace[g + 1] = <<"UseProgram", fb[b].program>>
                    /\ glTrace[g + 2] = <<"BindTexture", fb[b].texture>>
                    /\ glTrace[g + 3] = <<"BindVertexArray", fb[b].mesh.vao>>
                    /\ glTrace[g + 4] = <<"BindBuffer", "ELEMENT_ARRAY_BUFFER", fb[b].mesh.ebo>>
                    /\ glTrace[g + 5] = <<"BindBuffer", "ARRAY_BUFFER", fb[b].batch_vbo>>
                    /\ glTrace[g + 6][1] = "BufferData"
                    /\ glTrace[g + 7] = <<"DrawElementsInstanced",
                                          fb[b].mesh.indices_count, fb[b].obj_count>>
            /\ glTrace[CallsPerBatch * n + 2] = <<"BatchListClear">>
            /\ glTrace[CallsPerBatch * n + 3] = <<"SwapWindow">>
            /\ batches = <<>>
            /\ Cardinality(CallsNamed("DrawElementsInstanced")) = n
            /\ SumInstances(CallsNamed("DrawElementsInstanced")) = frame.inserted

C11_Witness ==
    /\ renderResult = "Ok"
    /\ Len(frame.batches) = 3
    /\ frame.inserted = MaxInserts
    /\ frame.batches[1].obj_count = max_batch_size
    /\ frame.batches[2].texture # frame.batches[1].texture

\* C12: render() with no DrawCall queued since the previous render() clears
\* the buffers once, swaps once, issues no instanced draw and returns Ok.
C12_EmptyFrameRenders ==
    (lastOp = "render" /\ ~frame.queued) =>
        /\ renderResult = "Ok"
        /\ Cardinality(CallsNamed("Clear")) = 1
        /\ Cardinality(CallsNamed("SwapWindow")) = 1
        /\ Cardinality(CallsNamed("DrawElementsInstanced")) = 0

\* C13: instance k of a batch is the (k+1)-th DrawCall the batch accepted and
\* stays so, and render() draws the batches in the order of the list, which
\* is the order they were created in.
C13_InstanceOrder ==
    /\ \A b \in BatchIndices :
        \A k \in 1 .. Len(origin[b]) :
            /\ k <= batches[b].obj_count
            /\ InstanceAt(batches[b], k - 1)
                 = [tex_position |-> origin[b][k].tex_position,
                    matrix |-> origin[b][k].matrix]
    /\ lastOp = "render" =>
        /\ renderResult = "Ok" => DrawnGroups = Len(frame.batches)
        /\ DrawnGroups <= Len(frame.batches)
        /\ \A b \in 1 .. DrawnGroups :
            LET g == GroupBase(b)
                fb == frame.batches[b]
            IN  /\ glTrace[g + 1] = <<"UseProgram", fb.program>>
                /\ glTrace[g + 2] = <<"BindTexture", fb.texture>>
                /\ glTrace[g + 6][1] = "BufferData"
                /\ \A j \in DOMAIN glTrace[g + 6][3] : glTrace[g + 6][3][j] = fb.buffer[j]
                /\ glTrace[g + 7][1] = "DrawElementsInstanced"
                /\ glTrace[g + 7][3] = fb.obj_count

C13_Witness ==
    /\ lastOp = "render"
    /\ renderResult = "Ok"
    /\ Len(frame.batches) >= 2
    /\ frame.batches[1].obj_count = 2
    /\ InstanceAt(frame.batches[1], 0).tex_position = TexPosB
    /\ InstanceAt(frame.batches[1], 1).tex_position = TexPosA
    /\ frame.batches[2].program # frame.batches[1].program

\* C17: buffer_data() uploads exactly obj_count * BATCH_INSTANCE_SIZE floats
\* (4 bytes each) from the start of the buffer, the whole buffer only for a
\* full batch, and leaves the batch as it was.
C17_UploadsUsedPart ==
    lastOp = "render" =>
        /\ \A b \in 1 .. DrawnGroups :
            LET up == glTrace[GroupBase(b) + 6]
                fb == frame.batches[b]
            IN  /\ up[1] = "BufferData"
                /\ up[2] = 4 * (fb.obj_count * BATCH_INSTANCE_SIZE)
                /\ DOMAIN up[3] = 0 .. (fb.obj_count * BATCH_INSTANCE_SIZE - 1)
                /\ \A j \in DOMAIN up[3] : up[3][j] = fb.buffer[j]
                /\ up[2] = 4 * Cardinality(DOMAIN fb.buffer)
                     => fb.obj_count = max_batch_size
        /\ renderResult # "Ok" => batches = frame.batches

C17_Witness ==
    /\ lastOp = "render"
    /\ DrawnGroups = 2
    /\ frame.batches[1].obj_count = max_batch_size
    /\ frame.batches[2].obj_count = 1
    /\ glTrace[GroupBase(2) + 6][2] = 4 * BATCH_INSTANCE_SIZE
    /\ renderResult # "Ok"


(***************************************************************************)
(* Properties of textures                                                  *)
(***************************************************************************)
\* len = pixel_length * width * height, for len below 2^31.
EqualsProduct(len, pixel_length, width, height) ==
    IF pixel_length * width = 0 THEN len = 0
    ELSE len % (pixel_length * width) = 0 /\ len \div (pixel_length * width) = height

\* pixel_length * width * height is below 2^31.
SmallProduct(pixel_length, width, height) ==
    pixel_length * width = 0 \/ height <= 2147483647 \div (pixel_length * width)

\* The last operation created a texture from raw bytes.
FromRawBytes == texResult.op \in {"from_bytes", "create_texture_advanced"}

\* The bytes per pixel that the last creation from raw bytes expects.
BytesPerPixel ==
    IF texResult.op = "from_bytes" THEN PixelLength(texResult.input.options.format) ELSE 4

C15_RejectsBeforeGl ==
    [][(texResult'.op = "from_bytes" /\ texResult'.result = "InvalidTextureData") =>
          /\ texResult'.calls = <<>>
          /\ texResult'.texture = NoTexture
          /\ glNext' = glNext
          /\ glLive' = glLive
          /\ owned' = owned
          /\ texResult'.error = <<PixelLength(texResult'.input.options.format),
                                  texResult'.input.width, texResult'.input.height,
                                  texResult'.input.len>>]_vars

\* 10 bytes for a 2 x 2 RGBA texture, rejected while another texture lives.
C15_Witness ==
    /\ texResult.op = "from_bytes"
    /\ texResult.input = [len |-> 10, options |-> DefaultOptions, width |-> 2, height |-> 2]
    /\ texResult.result = "InvalidTextureData"
    /\ texResult.error = <<4, 2, 2, 10>>
    /\ glLive # {}
    /\ glNext <= MaxTextures

\* The texture names held by live Texture values, in the cache or outside.
Held == {owned[i] : i \in DOMAIN owned} \cup {cache[p].id : p \in DOMAIN cache}

\* C16: no two live Texture values hold the same texture name, and every
\* texture name is deleted exactly once, when its Texture is destroyed:
\* never twice, never while a live Texture holds it, and never left
\* without a Texture undeleted.
C16_SingleOwnership ==
    /\ \A i, j \in DOMAIN owned : i # j => owned[i] # owned[j]
    /\ \A i \in DOMAIN owned, p \in DOMAIN cache : owned[i] # cache[p].id
    /\ \A p, q \in DOMAIN cache : p # q => cache[p].id # cache[q].id
    /\ \A n \in DOMAIN glDeleted : glDeleted[n] = 1 /\ n \notin Held
    /\ \A n \in 1 .. (glNext - 1) : n \in Held \/ n \in DOMAIN glDeleted


(***************************************************************************)
(* Properties of the input manager                                         *)
(***************************************************************************)
\* The keys and buttons held just before the last update polled its event i.
HeldBefore(i) == HeldAfterAll(before.held, SubSeq(polled, 1, i - 1), 1)

\* The events of the last update that are about key or button x.
EventsOf(types, x) ==
    {i \in DOMAIN polled : polled[i][1] \in types /\ polled[i][2] = x}

\* Key k went from up to down, or from down to up, during the last update.
WentDown(k) == \E i \in EventsOf({"KeyDown"}, k) : k \notin HeldBefore(i)
WentUp(k) == \E i \in EventsOf({"KeyUp"}, k) : k \in HeldBefore(i)

\* C18: for every mouse button that the InputManager has seen an event of,
\* down() is true exactly when the button is held: after a MouseButtonUp
\* with no later MouseButtonDown it reports up, after a MouseButtonDown it
\* reports down.
C18_ButtonStateCurrent ==
    \A b \in DOMAIN mouse_state : mouse_state[b].down <=> b \in held

\* C19: after an update, pressed() of a key is true exactly when the key went
\* from up to down during that update, and released() exactly when it went
\* from down to up during that update.
C19_PressedIffWentDown ==
    \A k \in Keycodes :
        /\ Pressed(Key(k)) <=> WentDown(k)
        /\ Released(Key(k)) <=> WentUp(k)

\* C20: after an update that processed no event for a mouse button, neither
\* pressed() nor released() of that button is true.
C20_QuietButton ==
    \A b \in DOMAIN mouse_state :
        EventsOf({"MouseButtonDown", "MouseButtonUp"}, b) = {}
            => ~Pressed(mouse_state[b]) /\ ~Released(mouse_state[b])


\* What a query returned is an InputError.
IsError(r) == "error" \in DOMAIN r

\* C21: key(keycode) returns the error KeycodeNotFound when the keycode is
\* not in the keyboard state.
C21_KeycodeNotFound ==
    \A k \in Keycodes \ DOMAIN key_state :
        IsError(Key(k)) /\ Key(k).error = "KeycodeNotFound"

\* The events of the last update of the given type.
EventsOfType(type) == {i \in DOMAIN polled : polled[i][1] = type}

\* C22: after every update, mouse_position_relative is the mouse position
\* after this update minus the one after the previous update, whatever the
\* number of MouseMotion events; without a MouseMotion event it is (0, 0),
\* and without a MouseWheel event mouse_wheel is 0.
C22_RelativeToLastFrame ==
    /\ mouse_position_relative =
           <<mouse_position[1] - before.mouse_position[1],
             mouse_position[2] - before.mouse_position[2]>>
    /\ EventsOfType("MouseMotion") = {} => mouse_position_relative = <<0, 0>>
    /\ EventsOfType("MouseWheel") = {} => mouse_wheel = 0

\* The event is one that the InputManager records in its key, button,
\* position or wheel state.
Handled(event) ==
    \/ event[1] \in {"KeyDown", "KeyUp"} /\ event[2] # "None"
    \/ event[1] \in {"MouseButtonDown", "MouseButtonUp", "MouseWheel", "MouseMotion"}
Unhandled(event) == ~Handled(event)

\* C23: update returns exactly the polled events that the InputManager did
\* not handle, in polling order.
C23_ReturnsUnhandled == returned = SelectSeq(polled, Unhandled)


\* C24: get_texture loads each image at most once. A call for a path in the
\* cache returns the cached texture id without loading or generating
\* anything; a call for a path not in the cache loads the image once and, if
\* that succeeds, generates one texture and caches it under the path; a call
\* that fails to load generates nothing and leaves the cache as it was.
C24_LoadsOnce ==
    [][texResult'.op = "get_texture" =>
          LET path == texResult'.input
              calls == texResult'.calls
              loads == {i \in DOMAIN calls : calls[i][1] = "load_png"}
          IN  IF path \in DOMAIN cache
              THEN /\ texResult'.result = "Ok"
                   /\ calls = <<>>
                   /\ texResult'.texture.id = cache[path].id
                   /\ cache' = cache
                   /\ glNext' = glNext
              ELSE /\ Cardinality(loads) = 1
                   /\ IF texResult'.result = "Ok"
                      THEN /\ Generated(calls) = {glNext}
                           /\ DOMAIN cache' = DOMAIN cache \cup {path}
                           /\ cache'[path].id = glNext
                           /\ texResult'.texture.id = glNext
                           /\ \A p \in DOMAIN cache : cache'[p] = cache[p]
                      ELSE /\ Generated(calls) = {}
                           /\ cache' = cache
                           /\ glNext' = glNext]_vars

\* A second get_texture for a cached path, after another path failed to load
\* or while its first Texture is still alive.
C24_Witness ==
    /\ texResult.op = "get_texture"
    /\ texResult.result = "Ok"
    /\ texResult.calls = <<>>
    /\ Len(owned) = 2
    /\ owned[1] = owned[2]
    /\ DOMAIN cache = {texResult.input}


(***************************************************************************)
(* Properties of shaders                                                   *)
(***************************************************************************)
\* C25: on every path through from_shaders, successful link or
\* ProgramLinkingFailed, the vertex and the fragment shader are detached and
\* deleted before it returns.
C25_ShadersDeleted ==
    shaderResult.op = "from_shaders" =>
        \A i \in {1, 2} :
            LET id == shaderResult.input[i].id
            IN  /\ id \notin glShaders
                /\ \A pair \in attached : pair[2] # id
                /\ \E d \in CallsNamedIn(shaderResult.calls, "DetachShader"),
                      e \in CallsNamedIn(shaderResult.calls, "DeleteShader") :
                        /\ shaderResult.calls[d][3] = id
                        /\ shaderResult.calls[e][2] = id
                        /\ d < e


(***************************************************************************)
(* Properties of a failing frame pass                                      *)
(***************************************************************************)
\* The batches of the frame whose mesh check fails.
FailingBatches == {b \in 1 .. Len(frame.batches) : MeshCheck(frame.batches[b].mesh) # "Ok"}

\* C26: when the mesh check of a batch fails during render(), render()
\* returns that error at once: the batches ahead of it in the list have been
\* drawn, nothing is bound or drawn for the failing batch or for a later
\* one, the BatchList is not cleared and the window is not swapped.
C26_FailsAtOnce ==
    (lastOp = "render" /\ FailingBatches # {}) =>
        LET fb == frame.batches
            k == CHOOSE b \in FailingBatches : \A c \in FailingBatches : b <= c
        IN  /\ renderResult = MeshCheck(fb[k].mesh)
            /\ Len(glTrace) = 1 + CallsPerBatch * (k - 1)
            /\ glTrace[1] = <<"Clear">>
            /\ \A b \in 1 .. (k - 1) :
                LET g == GroupBase(b)
                IN  /\ glTrace[g + 1] = <<"UseProgram", fb[b].program>>
                    /\ glTrace[g + 2] = <<"BindTexture", fb[b].texture>>
                    /\ glTrace[g + 3] = <<"BindVertexArray", fb[b].mesh.vao>>
                    /\ glTrace[g + 7] = <<"DrawElementsInstanced",
                                          fb[b].mesh.indices_count, fb[b].obj_count>>
            /\ CallsNamed("BatchListClear") = {}
            /\ CallsNamed("SwapWindow") = {}
            /\ batches = fb

\* The second of three batches fails its mesh check.
C26_Witness ==
    /\ lastOp = "render"
    /\ renderResult = "MeshVAONotInitialized"
    /\ Len(frame.batches) = 3
    /\ FailingBatches = {2}
    /\ Len(glTrace) = 1 + CallsPerBatch


(***************************************************************************)
(* Properties of interleaved keys                                          *)
(***************************************************************************)
\* The batches of the list with key k.
WithKey(k) == {b \in BatchIndices : KeyOf(batches[b]) = k}

\* C27: for each (program, mesh, texture) key at most one batch of that key
\* has room, and it is the last batch of the key in the list; the batches of
\* key k number ceil(n_k / MAX_BATCH_SIZE), n_k being the DrawCalls of key k
\* inserted since the list was last empty, however the keys interleave.
C27_OneOpenBatchPerKey ==
    /\ \A b \in BatchIndices : KeyOf(batches[b]) \in keysSeen
    /\ \A k \in keysSeen :
        LET open == {b \in WithKey(k) : batches[b].obj_count < max_batch_size}
        IN  /\ Cardinality(open) <= 1
            /\ \A b \in open : \A c \in WithKey(k) : c <= b
            /\ Cardinality(WithKey(k)) = CeilDiv(insertedOf[k], max_batch_size)

\* Two keys interleaved: a full batch and a later batch with room of one
\* key, a batch of another key between them.
C27_Witness ==
    /\ Len(batches) = 3
    /\ KeyOf(batches[1]) = KeyOf(batches[3])
    /\ KeyOf(batches[2]) # KeyOf(batches[1])
    /\ batches[1].obj_count = max_batch_size
    /\ batches[3].obj_count < max_batch_size
    /\ insertedOf[KeyOf(batches[2])] >= 1

====
